---- MODULE Spec2Model ----
(***************************************************************************)
(* A model of pomice's node pool and node connection (src/pomice/pool.py): *)
(* NodePool.create_node / get_node, Node.connect / send / disconnect, the  *)
(* receive loop Node._listen and the frame handler Node._handle_payload.   *)
(*                                                                         *)
(* The program runs on one asyncio event loop: between two awaits a        *)
(* coroutine runs atomically, so every action below is the code between    *)
(* two suspension points of one coroutine.                                 *)
(***************************************************************************)
EXTENDS Integers, Sequences, FiniteSets, TLC

\* ------------------------------------------------------------------ bounds
\* The model is explored under several budgets of the environment, one per
\* scenario: how many Node objects create_node constructs, how many times ws_connect
\* succeeds, how many frames the backends send, which guilds get players, how many
\* disconnect() calls are made and how many messages callers get written by send().
PoolNodes == 2
PoolSockets == 2
PoolGuilds == 1
PoolDisconnects == 1

ConnSockets == 3
ConnDisconnects == 1
ConnSends == 1

TeardownGuilds == 2
TeardownDisconnects == 2

RouteGuilds == 2
RouteFrames == 2

LiveSockets == 2
LiveFrames == 1
LiveGuilds == 1
LiveDisconnects == 1
LiveSends == 1

MaxPending == 1        \* connect() tasks a node may have scheduled and not yet run

Budget(n, s, f, g, d, m) ==
    [nodes |-> n, sockets |-> s, frames |-> f, guilds |-> g, disconnects |-> d, sends |-> m]

PoolScenario == Budget(PoolNodes, PoolSockets, 0, PoolGuilds, PoolDisconnects, 0)
ConnScenario == Budget(1, ConnSockets, 0, 0, ConnDisconnects, ConnSends)
TeardownScenario == Budget(1, 1, 0, TeardownGuilds, TeardownDisconnects, 0)
RouteScenario == Budget(1, 1, RouteFrames, RouteGuilds, 0, 0)
Scenarios == {PoolScenario, ConnScenario, TeardownScenario, RouteScenario}
\* the budget of the specification with fairness
LiveScenario == Budget(1, LiveSockets, LiveFrames, LiveGuilds, LiveDisconnects, LiveSends)
Budgets == Scenarios \cup {LiveScenario}

Most(S) == CHOOSE x \in S : \A y \in S : y <= x
MaxNodes == Most({b.nodes : b \in Budgets})
MaxSockets == Most({b.sockets : b \in Budgets})
MaxGuild == Most({b.guilds : b \in Budgets})
MaxDisconnects == Most({b.disconnects : b \in Budgets})
MaxSends == Most({b.sends : b \in Budgets})

Ids == {"a", "b"}                       \* node identifiers the callers use
NoId == "None"                          \* identifier=None
NodeObjs == 1..MaxNodes
Socks == 1..MaxSockets
Guilds == 1..MaxGuild
None == 0                               \* Python's None where an object index is expected

\* ------------------------------------------------------------------ state
VARIABLES
    budget,      \* the scenario's budget, fixed from the start
    nodes,       \* NodePool._nodes, a dict in insertion order: a sequence of [identifier, node]
    node,        \* the fields of every Node object (identifier = NoId: not constructed yet)
    call,        \* where the create_node call that constructed each Node object stands
    sock,        \* the websockets ws_connect has returned
    loop,        \* the _listen tasks, one per successful connect, indexed like the sockets
    reconnects,  \* per node, the connect() tasks _listen has scheduled and that have not finished
    handlers,    \* the _handle_payload tasks scheduled and not yet run: a set of [node, frame]
    frames,      \* how many frames the backends have sent so far
    calls,       \* the invocations of the players' entry points, in order
    disc,        \* the disconnect() calls, in order of their start: the players the node owned
                 \* at the call, those still to destroy and those destroyed (while the call
                 \* runs), where it stands, and what it raised
    filter,      \* the filter constructed last: its class, its arguments, what the
                 \* constructor raised and the payload of the object
    gt,          \* the get_tracks call under way or last finished, with the node's Spotify credentials
    ret          \* what the call that finished in the last step returned or raised (NoRet: none did)

pool == <<budget, nodes, node, call, sock, loop, reconnects, handlers, frames, calls, disc, ret>>
vars == <<pool, gt, filter>>

\* ------------------------------------------------------------------ helpers
Range(s) == {s[i] : i \in 1..Len(s)}

RECURSIVE SeqRemove(_, _)
SeqRemove(s, x) ==
    IF s = <<>> THEN <<>>
    ELSE IF Head(s) = x THEN SeqRemove(Tail(s), x)
    ELSE <<Head(s)>> \o SeqRemove(Tail(s), x)

\* Python truthiness of Node._available, which holds None or True
Truthy(v) == v = "True"

\* Node.__init__ (the fields the model follows)
NewNode(identifier) ==
    [identifier |-> identifier, websocket |-> None, task |-> None,
     available |-> "None", players |-> <<>>, stats |-> None]

Unbuilt == [identifier |-> NoId, websocket |-> None, task |-> None,
            available |-> "None", players |-> <<>>, stats |-> None]

\* Node.is_connected
is_connected(n) ==
    node[n].websocket # None /\ ~sock[node[n].websocket].closed

\* Node.player_count
player_count(n) == Len(node[n].players)

\* ------------------------------------------------------------------ NodePool
\* cls._nodes.keys()
Keys(d) == {d[i].identifier : i \in 1..Len(d)}

\* cls._nodes[identifier] = n: a new key goes last, an existing key keeps its place
DictSet(d, identifier, n) ==
    IF identifier \in Keys(d)
    THEN [i \in 1..Len(d) |->
            IF d[i].identifier = identifier THEN [identifier |-> identifier, node |-> n] ELSE d[i]]
    ELSE Append(d, [identifier |-> identifier, node |-> n])

\* d.get(identifier, None)
DictGet(d, identifier) ==
    IF identifier \in Keys(d)
    THEN (CHOOSE e \in Range(d) : e.identifier = identifier).node
    ELSE None

\* sorted(xs, key=lambda n: len(n.players)): Python's sort is stable, so this is
\* insertion after the last element whose key is not greater
RECURSIVE InsertByKey(_, _)
InsertByKey(sorted, n) ==
    IF sorted = <<>> THEN <<n>>
    ELSE IF player_count(Head(sorted)) <= player_count(n)
         THEN <<Head(sorted)>> \o InsertByKey(Tail(sorted), n)
         ELSE <<n>> \o sorted

\* a get_node that takes the first available node, whatever its load
SortedByPlayers_unsorted(xs) == xs

RECURSIVE SortedByPlayers(_)
SortedByPlayers(xs) ==
    IF xs = <<>> THEN <<>>
    ELSE InsertByKey(SortedByPlayers(SubSeq(xs, 1, Len(xs) - 1)), xs[Len(xs)])

\* a get_node that goes through the registry from its newest entry
AvailableNodes_newest_first ==
    LET available == SelectSeq(nodes, LAMBDA e : Truthy(node[e.node].available))
    IN  [i \in 1..Len(available) |-> available[Len(available) + 1 - i]]

\* the dict comprehension of get_node: the entries whose node._available is truthy
AvailableNodes ==
    SelectSeq(nodes, LAMBDA e : Truthy(node[e.node].available))

Raise(exc) == [kind |-> "raise", exc |-> exc, node |-> None]
Return(n) == [kind |-> "return", exc |-> "", node |-> n]

\* a get_node that looks the identifier up before it checks for available nodes
get_node_lookup_first(identifier) ==
    LET available_nodes == AvailableNodes
    IN  IF identifier # NoId THEN Return(DictGet(available_nodes, identifier))
        ELSE IF available_nodes = <<>> THEN Raise("NoNodesAvailable")
        ELSE Return(SortedByPlayers([i \in 1..Len(available_nodes) |-> available_nodes[i].node])[1])

\* NodePool.get_node
get_node(identifier) ==
    LET available_nodes == AvailableNodes
    IN  IF available_nodes = <<>> THEN Raise("NoNodesAvailable")
        ELSE IF identifier = NoId
             THEN Return(SortedByPlayers([i \in 1..Len(available_nodes) |-> available_nodes[i].node])[1])
             ELSE Return(DictGet(available_nodes, identifier))

\* cause is the exception ws_connect raised inside the call ("" when it raised none)
NoRet == [op |-> "", arg |-> NoId, node |-> None, cause |-> "", result |-> Return(None)]

\* ------------------------------------------------------------------ sockets
\* a websocket: closed is ClientWebSocketResponse.closed, inbox the frames that have
\* arrived and were not read yet, sent the messages written to it, wake the close
\* notification handed to the receive() that was waiting when the socket closed
NoSocket == [opened |-> FALSE, closed |-> FALSE, inbox |-> <<>>, sent |-> <<>>, wake |-> ""]
OpenSocket == [opened |-> TRUE, closed |-> FALSE, inbox |-> <<>>, sent |-> <<>>, wake |-> ""]

Unopened == {s \in 1..budget.sockets : ~sock[s].opened}
FreshSock == CHOOSE s \in Unopened : \A t \in Unopened : s <= t

Waiting(lp, s) == {l \in Socks : lp[l].pc = "waiting" /\ lp[l].ws = s}

\* the socket s after it closed with notification kind: the frames not read yet are
\* lost with the connection, and a receive() waiting on s is woken with the notification
CloseSocket(sk, lp, s, kind) ==
    IF sk[s].closed THEN sk
    ELSE [sk EXCEPT ![s].closed = TRUE, ![s].inbox = <<>>,
                    ![s].wake = IF Waiting(lp, s) # {} THEN kind ELSE ""]

ConfigureResuming == [op |-> "configureResuming", key |-> "myResumeKey", timeout |-> 60]
UserMessage == [op |-> "play", key |-> "", timeout |-> 0]

\* ------------------------------------------------------------------ Node.send
\* what send() raises ("" when it raises nothing) on node fields nd and sockets sk;
\* send_str on a closed websocket raises aiohttp's ConnectionResetError
send_raises(nd, sk) ==
    IF ~Truthy(nd.available) THEN "NodeNotAvailable"
    ELSE IF sk[nd.websocket].closed THEN "ConnectionResetError"
    ELSE ""

\* the sockets after send(): the message is written when nothing is raised
send_writes(nd, sk, msg) ==
    IF send_raises(nd, sk) = "" THEN [sk EXCEPT ![nd.websocket].sent = Append(@, msg)]
    ELSE sk

\* ------------------------------------------------------------------ Node.get_tracks
\* A query is a sequence of pieces of text. The three patterns of pool.py read it
\* piece by piece: "https?://" is a scheme piece, "(album|artist|playlist|track)/" a
\* kind piece, "[0-9]+/" a digits piece, and so on.
Schemes == {"http://", "https://"}
SpotifyHost == "open.spotify.com/"
SpotifyKinds == {"album/", "artist/", "playlist/", "track/"}
SpotifyIds == {"abc"}
DiscordHost == "cdn.discordapp.com/attachments/"
DigitPieces == {"1/", "2/"}
FilePieces == {"song.mp3"}

Queries ==
    { <<"never", "gonna">>,
      <<"https://">>,
      <<"https://", "example.com/x">>,
      <<"listen", "https://", "open.spotify.com/", "track/", "abc">>,
      <<"https://", "open.spotify.com/", "track/", "abc">>,
      <<"http://", "open.spotify.com/", "playlist/", "abc", "?si=1">>,
      <<"https://", "open.spotify.com/", "user/", "abc">>,
      <<"https://", "cdn.discordapp.com/attachments/", "1/", "2/", "song.mp3">>,
      <<"https://", "cdn.discordapp.com/attachments/", "1/", "song.mp3">> }

\* URL_REGEX.search(query): a scheme anywhere, followed by at least one character
URL_REGEX_search(q) == \E i \in 1..(Len(q) - 1) : q[i] \in Schemes

\* SPOTIFY_URL_REGEX.match(query): anchored at the start, anything may follow
SPOTIFY_URL_REGEX_match(q) ==
    /\ Len(q) >= 4
    /\ q[1] \in Schemes /\ q[2] = SpotifyHost /\ q[3] \in SpotifyKinds /\ q[4] \in SpotifyIds

\* DISCORD_MP3_URL_REGEX.match(query), and its group "file"
DISCORD_MP3_URL_REGEX_match(q) ==
    /\ Len(q) >= 5
    /\ q[1] \in Schemes /\ q[2] = DiscordHost
    /\ q[3] \in DigitPieces /\ q[4] \in DigitPieces /\ q[5] \in FilePieces
group_file(q) == q[5]

\* f"{search_type}:{query}" with the default search type
search_prefix(q) == <<"ytsearch", ":">> \o q

\* a get_tracks that prefixes every query
prefixed_always(q, local) == search_prefix(q)

\* line 299
prefixed(q, local) == IF ~URL_REGEX_search(q) /\ ~local THEN search_prefix(q) ELSE q

\* the backend's answer to GET /loadtracks: loadType ("" when the key is missing), the
\* track entries, and the exception of a LOAD_FAILED answer
MaxTracks == 2
LoadTypes == {"", "NO_MATCHES", "LOAD_FAILED", "PLAYLIST_LOADED", "SEARCH_RESULT",
              "TRACK_LOADED", "UNKNOWN"}
Entries == {"t1", "t2"}
TrackLists == UNION {[1..k -> Entries] : k \in 0..MaxTracks}
BackendException == [message |-> "boom", severity |-> "COMMON"]
Responses == [loadType : LoadTypes, tracks : TrackLists]

\* what spotify.Client.search returns: a spotify.Track, or a collection with tracks
CatalogResults ==
    {[kind |-> "Track", tracks |-> <<e>>] : e \in Entries}
        \cup {[kind |-> "Playlist", tracks |-> ts] : ts \in TrackLists}
NoData == [kind |-> "", tracks |-> <<>>]

\* the outcomes of a call
Failure(exc, tag) == [kind |-> "raise", exc |-> exc, tag |-> tag, tracks |-> <<>>]
TrackList(ts) == [kind |-> "list", exc |-> "", tag |-> <<>>, tracks |-> ts]
APlaylist(ts) == [kind |-> "Playlist", exc |-> "", tag |-> <<>>, tracks |-> ts]
ReturnsNone == [kind |-> "None", exc |-> "", tag |-> <<>>, tracks |-> <<>>]
Pending == [kind |-> "", exc |-> "", tag |-> <<>>, tracks |-> <<>>]

\* Track(...) as the three resolvers build it
Track(id, title, source, spotify) ==
    [track_id |-> id, title |-> title, sourceName |-> source, spotify |-> spotify]

\* a node on which get_tracks has not been called: Node.__init__ keeps the two
\* credentials (TRUE: a non-empty string) and builds the Spotify client only when it
\* has both
NoTracksCall(id, secret) ==
    [spotify_client_id |-> id, spotify_client_secret |-> secret, spotify_client |-> id /\ secret,
     pc |-> "idle", resolver |-> "", given |-> <<>>, query |-> <<>>, local |-> FALSE, file |-> "", requests |-> <<>>,
     data |-> NoData, outcome |-> Pending]

CatalogRequest(q) == [to |-> "catalog", identifier |-> q]
\* urllib.parse.quote: ":", "?" and "=" are percent-encoded, "/" and the rest are kept
quote_piece(p) ==
    CASE p = "https://" -> "https%3A//"
      [] p = "http://" -> "http%3A//"
      [] p = ":" -> "%3A"
      [] p = "?si=1" -> "%3Fsi%3D1"
      [] OTHER -> p
quote(q) == [i \in 1..Len(q) |-> quote_piece(q[i])]
\* GET {rest_uri}/loadtracks?identifier={quote(query)}
LoadRequest(q) == [to |-> "backend", identifier |-> quote(q)]

\* get_tracks up to its first await, or to the exception it raises before it
get_tracks_start(c, query, local) ==
    LET q == prefixed(query, local)
        new == [NoTracksCall(c.spotify_client_id, c.spotify_client_secret)
                    EXCEPT !.given = query, !.query = q, !.local = local]
    IN  IF SPOTIFY_URL_REGEX_match(q)
        THEN IF ~c.spotify_client_id /\ ~c.spotify_client_secret
             THEN [new EXCEPT !.pc = "done", !.resolver = "catalog",
                              !.outcome = Failure("InvalidSpotifyClientAuthorization", <<>>)]
             ELSE IF ~c.spotify_client
             THEN [new EXCEPT !.pc = "done", !.resolver = "catalog",
                              !.outcome = Failure("AttributeError", <<>>)]
             ELSE [new EXCEPT !.pc = "catalog", !.resolver = "catalog", !.requests = <<CatalogRequest(q)>>]
        ELSE IF DISCORD_MP3_URL_REGEX_match(q)
        THEN [new EXCEPT !.pc = "attachment", !.resolver = "attachment", !.file = group_file(q),
                         !.requests = <<LoadRequest(q)>>]
        ELSE [new EXCEPT !.pc = "generic", !.resolver = "generic", !.requests = <<LoadRequest(q)>>]

\* lines 312-359: the catalog's answer
catalog_outcome(res) ==
    LET tracks == [i \in 1..Len(res.tracks) |-> Track(res.tracks[i], res.tracks[i], "None", TRUE)]
    IN  IF res.kind = "Track" THEN TrackList(<<tracks[1]>>) ELSE APlaylist(tracks)

\* lines 368-386: data["tracks"][0] of the backend's answer, whatever its loadType
attachment_outcome(file, data) ==
    IF data.tracks = <<>> THEN Failure("IndexError", <<>>)
    ELSE TrackList(<<Track(data.tracks[1], file, "http", FALSE)>>)

\* ------------------------------------------------------------------ filters
\* the arguments are Python floats: the model counts in halves
Num(whole, halves) == 2 * whole + halves
MaxLevel == 2
MaxFrequency == 15
Levels == Num(-1, 0)..Num(MaxLevel, 0)
Frequencies == Levels \cup (Num(13, 1)..Num(MaxFrequency, 0))

NoFilter == [cls |-> "", args |-> <<>>, exc |-> "", payload |-> <<>>]
\* the constructor raised: there is no object
Raises(cls, args, exc) == [cls |-> cls, args |-> args, exc |-> exc, payload |-> <<>>]
\* the constructor returned: self.payload, as the pairs of key and value
Constructed(cls, args, payload) == [cls |-> cls, args |-> args, exc |-> "", payload |-> payload]

Timescale(speed, pitch, rate) ==
    IF speed < 0 \/ pitch < 0 \/ rate < 0
    THEN Raises("Timescale", <<speed, pitch, rate>>, "FilterInvalidArgument")
    ELSE Constructed("Timescale", <<speed, pitch, rate>>,
                     <<<<"speed", speed>>, <<"pitch", pitch>>, <<"rate", rate>>>>)

Tremolo(frequency, depth) ==
    IF frequency < 0 THEN Raises("Tremolo", <<frequency, depth>>, "FilterInvalidArgument")
    ELSE IF depth < 0 \/ depth > Num(1, 0)
    THEN Raises("Tremolo", <<frequency, depth>>, "FilterInvalidArgument")
    ELSE Constructed("Tremolo", <<frequency, depth>>,
                     <<<<"frequency", frequency>>, <<"depth", depth>>>>)

\* a Vibrato without the upper limit on its frequency
Vibrato_unlimited(frequency, depth) ==
    IF frequency < 0 THEN Raises("Vibrato", <<frequency, depth>>, "FilterInvalidArgument")
    ELSE IF depth < 0 \/ depth > Num(1, 0)
    THEN Raises("Vibrato", <<frequency, depth>>, "FilterInvalidArgument")
    ELSE Constructed("Vibrato", <<frequency, depth>>,
                     <<<<"frequency", frequency>>, <<"depth", depth>>>>)

Vibrato(frequency, depth) ==
    IF frequency < 0 \/ frequency > Num(14, 0)
    THEN Raises("Vibrato", <<frequency, depth>>, "FilterInvalidArgument")
    ELSE IF depth < 0 \/ depth > Num(1, 0)
    THEN Raises("Vibrato", <<frequency, depth>>, "FilterInvalidArgument")
    ELSE Constructed("Vibrato", <<frequency, depth>>,
                     <<<<"frequency", frequency>>, <<"depth", depth>>>>)

\* Python's chained comparison a > x > b: a > x and x > b
Chained(a, x, b) == a > x /\ x > b

ChannelMix(left_to_left, right_to_right, left_to_right, right_to_left) ==
    LET args == <<left_to_left, right_to_right, left_to_right, right_to_left>>
    IN  IF \E i \in 1..4 : Chained(0, args[i], Num(1, 0))
        THEN Raises("ChannelMix", args, "ValueError")
        ELSE Constructed("ChannelMix", args,
                         <<<<"leftToLeft", left_to_left>>, <<"leftToRight", left_to_right>>,
                           <<"rightToLeft", right_to_left>>, <<"rightToRight", right_to_right>>>>)

\* the pool at rest, with the budget b
Quiet(b) ==
    /\ budget = b
    /\ nodes = <<>>
    /\ node = [n \in NodeObjs |-> Unbuilt]
    /\ call = [n \in NodeObjs |-> "none"]
    /\ sock = [s \in Socks |-> NoSocket]
    /\ loop = [s \in Socks |-> [pc |-> "none", node |-> None, ws |-> None]]
    /\ reconnects = [n \in NodeObjs |-> 0]
    /\ handlers = {}
    /\ frames = 0
    /\ calls = <<>>
    /\ disc = <<>>
    /\ ret = NoRet

\* ------------------------------------------------------------------ initial state
Init ==
    /\ budget \in Scenarios
    /\ nodes = <<>>
    /\ node = [n \in NodeObjs |-> Unbuilt]
    /\ call = [n \in NodeObjs |-> "none"]
    /\ sock = [s \in Socks |-> NoSocket]
    /\ loop = [s \in Socks |-> [pc |-> "none", node |-> None, ws |-> None]]
    /\ reconnects = [n \in NodeObjs |-> 0]
    /\ handlers = {}
    /\ frames = 0
    /\ calls = <<>>
    /\ disc = <<>>
    /\ ret = NoRet
    /\ gt = NoTracksCall(FALSE, FALSE)
    /\ filter = NoFilter

\* ------------------------------------------------------------------ Node.connect
\* the exceptions ws_connect raises; connect() turns the first three (the handshake
\* is rejected, the URI is invalid, the host name does not resolve) into
\* NodeConnectionFailure and lets any other through
ConnectErrors == {"WSServerHandshakeError", "InvalidURL", "gaierror", "ClientConnectorError"}
\* a connect() that does not catch socket.gaierror
connect_raises_dns_uncaught(err) ==
    IF err \in {"WSServerHandshakeError", "InvalidURL"}
    THEN "NodeConnectionFailure" ELSE err

connect_raises(err) ==
    IF err \in {"WSServerHandshakeError", "InvalidURL", "gaierror"}
    THEN "NodeConnectionFailure" ELSE err

\* connect() from the return of ws_connect, with the new socket s, to its own return
connect_node(nd, n, s) ==
    [nd EXCEPT ![n].websocket = s, ![n].task = s, ![n].available = "True"]
connect_loop(lp, n, s) ==
    [lp EXCEPT ![s] = [pc |-> "start", node |-> n, ws |-> None]]
\* a connect() that does not configure resuming
connect_sock_silent(nd, sk, n, s) == [sk EXCEPT ![s] = OpenSocket]

connect_sock(nd, sk, n, s) ==
    send_writes(connect_node(nd, n, s)[n], [sk EXCEPT ![s] = OpenSocket], ConfigureResuming)

\* ------------------------------------------------------------------ NodePool.create_node
\* a create_node without its duplicate check
CreateNodeCall_unchecked(identifier) ==
    /\ \E n \in NodeObjs :
         /\ n <= budget.nodes
         /\ call[n] = "none"
         /\ \A m \in NodeObjs : call[m] = "none" => n <= m
         /\ node' = [node EXCEPT ![n] = NewNode(identifier)]
         /\ call' = [call EXCEPT ![n] = "connect"]
    /\ ret' = NoRet
    /\ UNCHANGED <<filter, gt, budget, nodes, sock, loop, reconnects, handlers, frames, calls, disc>>

\* the call up to the await of ws_connect: the duplicate check and Node(...)
CreateNodeCall(identifier) ==
    \/ /\ identifier \in Keys(nodes)
       /\ ret' = [op |-> "create_node", arg |-> identifier, node |-> None, cause |-> "",
                  result |-> Raise("NodeCreationError")]
       /\ UNCHANGED <<filter, gt, budget, nodes, node, call, sock, loop, reconnects, handlers, frames, calls, disc>>
    \/ /\ identifier \notin Keys(nodes)
       /\ \E n \in NodeObjs :
            /\ n <= budget.nodes
            /\ call[n] = "none"
            /\ \A m \in NodeObjs : call[m] = "none" => n <= m
            /\ node' = [node EXCEPT ![n] = NewNode(identifier)]
            /\ call' = [call EXCEPT ![n] = "connect"]
       /\ ret' = NoRet
       /\ UNCHANGED <<filter, gt, budget, nodes, sock, loop, reconnects, handlers, frames, calls, disc>>

\* ws_connect succeeds: the rest of connect(), then the insertion into the registry
CreateNodeConnected(n) ==
    /\ call[n] = "connect"
    /\ Unopened # {}
    /\ LET s == FreshSock
       IN  /\ node' = connect_node(node, n, s)
           /\ loop' = connect_loop(loop, n, s)
           /\ sock' = connect_sock(node, sock, n, s)
    /\ nodes' = DictSet(nodes, node[n].identifier, n)
    /\ call' = [call EXCEPT ![n] = "returned"]
    /\ ret' = [op |-> "create_node", arg |-> node[n].identifier, node |-> n, cause |-> "", result |-> Return(n)]
    /\ UNCHANGED <<filter, gt, budget, reconnects, handlers, frames, calls, disc>>

\* a create_node that registers the node before connect() has returned
CreateNodeFailed_registered(n, err) ==
    /\ call[n] = "connect"
    /\ call' = [call EXCEPT ![n] = "failed"]
    /\ nodes' = DictSet(nodes, node[n].identifier, n)
    /\ ret' = [op |-> "create_node", arg |-> node[n].identifier, node |-> n, cause |-> err,
               result |-> Raise(connect_raises(err))]
    /\ UNCHANGED <<filter, gt, budget, node, sock, loop, reconnects, handlers, frames, calls, disc>>

\* ws_connect raises: connect() raises, and so does create_node
CreateNodeFailed(n, err) ==
    /\ call[n] = "connect"
    /\ call' = [call EXCEPT ![n] = "failed"]
    /\ ret' = [op |-> "create_node", arg |-> node[n].identifier, node |-> n, cause |-> err,
               result |-> Raise(connect_raises(err))]
    /\ UNCHANGED <<filter, gt, budget, nodes, node, sock, loop, reconnects, handlers, frames, calls, disc>>

\* ------------------------------------------------------------------ calls of get_node and send
GetNodeCall(identifier) ==
    /\ ret' = [op |-> "get_node", arg |-> identifier, node |-> None, cause |-> "", result |-> get_node(identifier)]
    /\ UNCHANGED <<filter, gt, budget, nodes, node, call, sock, loop, reconnects, handlers, frames, calls, disc>>

Built == {n \in NodeObjs : node[n].identifier # NoId}

\* the messages written by calls of send() other than connect()'s own
UserSent == Cardinality({<<s, i>> \in Socks \X (1..(MaxSends + 1)) :
                            i <= Len(sock[s].sent) /\ sock[s].sent[i] = UserMessage})

SendCall(n) ==
    /\ n \in Built
    /\ UserSent < budget.sends
    /\ sock' = send_writes(node[n], sock, UserMessage)
    /\ ret' = [op |-> "send", arg |-> node[n].identifier, node |-> n, cause |-> "",
               result |-> IF send_raises(node[n], sock) = "" THEN Return(None)
                          ELSE Raise(send_raises(node[n], sock))]
    /\ UNCHANGED <<filter, gt, budget, nodes, node, call, loop, reconnects, handlers, frames, calls, disc>>

\* ------------------------------------------------------------------ players
\* a player registers itself in Node._players under its guild id
AddPlayer(n, g) ==
    /\ call[n] = "returned"
    /\ g <= budget.guilds
    /\ g \notin Range(node[n].players)
    /\ node' = [node EXCEPT ![n].players = Append(@, g)]
    /\ ret' = NoRet
    /\ UNCHANGED <<filter, gt, budget, nodes, call, sock, loop, reconnects, handlers, frames, calls, disc>>

\* Player.destroy(): the player takes itself out of Node._players
destroy(nd, n, g) == [nd EXCEPT ![n].players = SeqRemove(@, g)]

DestroyPlayer(n, g) ==
    /\ g \in Range(node[n].players)
    /\ node' = destroy(node, n, g)
    /\ ret' = NoRet
    /\ UNCHANGED <<filter, gt, budget, nodes, call, sock, loop, reconnects, handlers, frames, calls, disc>>

\* ------------------------------------------------------------------ the backend
\* the ops of the frames: none, the three the handler knows, and one it does not know,
\* which like stats carries no guildId
FrameOps == {"", "stats", "event", "playerUpdate", "ready"}
Frame(id, op, g) == [id |-> id, op |-> op, guildId |-> IF op \in {"event", "playerUpdate"} THEN g ELSE None]

\* the backend sends a frame on an open socket
BackendSend(s, op, g) ==
    /\ sock[s].opened /\ ~sock[s].closed
    /\ frames < budget.frames
    /\ frames' = frames + 1
    /\ sock' = [sock EXCEPT ![s].inbox = Append(@, Frame(frames + 1, op, g))]
    /\ ret' = NoRet
    /\ UNCHANGED <<filter, gt, budget, nodes, node, call, loop, reconnects, handlers, calls, disc>>

\* the connection drops: "CLOSED" when it is lost, "CLOSE" when the backend sends a close frame
SocketDrop(s, kind) ==
    /\ sock[s].opened /\ ~sock[s].closed
    /\ sock' = CloseSocket(sock, loop, s, kind)
    /\ ret' = NoRet
    /\ UNCHANGED <<filter, gt, budget, nodes, node, call, loop, reconnects, handlers, frames, calls, disc>>

\* ------------------------------------------------------------------ Node._listen
\* the loop l calls self._websocket.receive() in the state (nd, sk, lp): a second
\* receive() on a websocket raises RuntimeError and ends the task; on a closed
\* websocket receive() returns CLOSED at once and the loop is in its backoff sleep
receive(nd, sk, lp, l) ==
    LET w == nd[lp[l].node].websocket
    IN  IF Waiting(lp, w) \ {l} # {} THEN [lp EXCEPT ![l].pc = "dead", ![l].ws = None]
        ELSE IF sk[w].closed THEN [lp EXCEPT ![l].pc = "sleep", ![l].ws = None]
        ELSE [lp EXCEPT ![l].pc = "waiting", ![l].ws = w]

\* the task created by connect() starts running
ListenStart(l) ==
    /\ loop[l].pc = "start"
    /\ loop' = receive(node, sock, loop, l)
    /\ ret' = NoRet
    /\ UNCHANGED <<filter, gt, budget, nodes, node, call, sock, reconnects, handlers, frames, calls, disc>>

\* a loop that takes the frame that arrived last
ListenFrame_newest_first(l) ==
    /\ loop[l].pc = "waiting"
    /\ sock[loop[l].ws].inbox # <<>>
    /\ LET s == loop[l].ws
           inbox == sock[s].inbox
           sk == [sock EXCEPT ![s].inbox = SubSeq(inbox, 1, Len(inbox) - 1)]
       IN  /\ sock' = sk
           /\ handlers' = handlers \cup {[node |-> loop[l].node, frame |-> inbox[Len(inbox)]]}
           /\ loop' = receive(node, sk, [loop EXCEPT ![l].pc = "read"], l)
    /\ ret' = NoRet
    /\ UNCHANGED <<filter, gt, budget, nodes, node, call, reconnects, frames, calls, disc>>

\* receive() returns a frame: its handling becomes a task and the loop reads on
ListenFrame(l) ==
    /\ loop[l].pc = "waiting"
    /\ sock[loop[l].ws].inbox # <<>>
    /\ LET s == loop[l].ws
           sk == [sock EXCEPT ![s].inbox = Tail(@)]
       IN  /\ sock' = sk
           /\ handlers' = handlers \cup {[node |-> loop[l].node, frame |-> Head(sock[s].inbox)]}
           /\ loop' = receive(node, sk, [loop EXCEPT ![l].pc = "read"], l)
    /\ ret' = NoRet
    /\ UNCHANGED <<filter, gt, budget, nodes, node, call, reconnects, frames, calls, disc>>

\* receive() returns the close notification: CLOSED starts the backoff sleep, any
\* other type goes to msg.json(), which raises and ends the task
ListenClosed(l) ==
    /\ loop[l].pc = "waiting"
    /\ sock[loop[l].ws].wake # ""
    /\ sock' = [sock EXCEPT ![loop[l].ws].wake = ""]
    /\ loop' = [loop EXCEPT ![l].pc = IF sock[loop[l].ws].wake = "CLOSED" THEN "sleep" ELSE "dead",
                            ![l].ws = None]
    /\ ret' = NoRet
    /\ UNCHANGED <<filter, gt, budget, nodes, node, call, reconnects, handlers, frames, calls, disc>>

\* the backoff sleep ends: a connect() task is created if the node is not connected,
\* and the loop reads on
ListenWake(l) ==
    /\ loop[l].pc = "sleep"
    /\ LET n == loop[l].node
       IN  /\ ~is_connected(n) => reconnects[n] < MaxPending
           /\ reconnects' = IF ~is_connected(n) THEN [reconnects EXCEPT ![n] = @ + 1] ELSE reconnects
    /\ loop' = receive(node, sock, loop, l)
    /\ ret' = NoRet
    /\ UNCHANGED <<filter, gt, budget, nodes, node, call, sock, handlers, frames, calls, disc>>

\* a connect() task of _listen: ws_connect succeeds
Reconnected(n) ==
    /\ reconnects[n] > 0
    /\ Unopened # {}
    /\ reconnects' = [reconnects EXCEPT ![n] = @ - 1]
    /\ LET s == FreshSock
       IN  /\ node' = connect_node(node, n, s)
           /\ loop' = connect_loop(loop, n, s)
           /\ sock' = connect_sock(node, sock, n, s)
    /\ ret' = NoRet
    /\ UNCHANGED <<filter, gt, budget, nodes, call, handlers, frames, calls, disc>>

\* a connect() task of _listen: ws_connect raises, and the exception ends the task
ReconnectFailed(n) ==
    /\ reconnects[n] > 0
    /\ reconnects' = [reconnects EXCEPT ![n] = @ - 1]
    /\ ret' = NoRet
    /\ UNCHANGED <<filter, gt, budget, nodes, node, call, sock, loop, handlers, frames, calls, disc>>

\* ------------------------------------------------------------------ Node._handle_payload
Invoke(n, g, entry, f) == [node |-> n, guild |-> g, entry |-> entry, payload |-> f]

\* a handler that keeps the first snapshot
handle_stats_keep_first(nd, n, f) ==
    IF f.op = "stats" /\ nd[n].stats = None THEN [nd EXCEPT ![n].stats = f.id] ELSE nd

\* self._stats = NodeStats(data): the snapshot of a frame is named by the frame
handle_stats(nd, n, f) ==
    IF f.op = "stats" THEN [nd EXCEPT ![n].stats = f.id] ELSE nd

\* a handler that forwards every event to _update_state
handle_calls_one_entry(nd, cs, n, f) ==
    IF f.op \in {"", "stats"} THEN cs
    ELSE IF f.guildId \notin Range(nd[n].players) THEN cs
    ELSE Append(cs, Invoke(n, f.guildId, "_update_state", f))

handle_calls(nd, cs, n, f) ==
    IF f.op \in {"", "stats"} THEN cs
    ELSE IF f.guildId \notin Range(nd[n].players) THEN cs
    ELSE IF f.op = "event" THEN Append(cs, Invoke(n, f.guildId, "_dispatch_event", f))
    ELSE IF f.op = "playerUpdate" THEN Append(cs, Invoke(n, f.guildId, "_update_state", f))
    ELSE cs

\* what the handler raises ("" when nothing): data["guildId"] of a frame without one
handle_raises(f) ==
    IF f.op \in {"", "stats"} THEN ""
    ELSE IF f.guildId = None THEN "KeyError"
    ELSE ""

HandlePayload(h) ==
    /\ h \in handlers
    /\ handlers' = handlers \ {h}
    /\ node' = handle_stats(node, h.node, h.frame)
    /\ calls' = handle_calls(node, calls, h.node, h.frame)
    /\ ret' = IF handle_raises(h.frame) = "" THEN NoRet
               ELSE [op |-> "_handle_payload", arg |-> NoId, node |-> h.node, cause |-> "",
                     result |-> Raise(handle_raises(h.frame))]
    /\ UNCHANGED <<filter, gt, budget, nodes, call, sock, loop, reconnects, frames, disc>>

\* ------------------------------------------------------------------ Node.disconnect
\* a disconnect() that skips the first player
players_copy_skipping(n) == IF node[n].players = <<>> THEN <<>> ELSE Tail(node[n].players)

\* self.players.copy().values(): the players at the time of the call, in dict order
players_copy(n) == node[n].players

DisconnectCall(n) ==
    /\ call[n] = "returned"
    /\ Len(disc) < budget.disconnects
    /\ disc' = Append(disc, [node |-> n, owned |-> node[n].players, todo |-> players_copy(n),
                             destroyed |-> <<>>, pc |-> "destroy", exc |-> ""])
    /\ ret' = NoRet
    /\ UNCHANGED <<filter, gt, budget, nodes, node, call, sock, loop, reconnects, handlers, frames, calls>>

\* await player.destroy() for the next player of the copy
DisconnectDestroy(d) ==
    /\ d \in 1..Len(disc)
    /\ disc[d].pc = "destroy"
    /\ disc[d].todo # <<>>
    /\ node' = destroy(node, disc[d].node, Head(disc[d].todo))
    /\ disc' = [disc EXCEPT ![d].todo = Tail(@), ![d].destroyed = Append(@, Head(disc[d].todo))]
    /\ ret' = NoRet
    /\ UNCHANGED <<filter, gt, budget, nodes, call, sock, loop, reconnects, handlers, frames, calls>>

\* Node._pool of a node built by create_node is the class NodePool (pool=cls)
PoolIsClass == TRUE

DictDel(d, identifier) == SelectSeq(d, LAMBDA e : e.identifier # identifier)

\* del self._pool.nodes[identifier]: nodes is a property of NodePool, and looked up on
\* the class it is the property object itself, which supports no item deletion
del_pool_nodes(d, identifier) ==
    IF PoolIsClass THEN [exc |-> "TypeError", nodes |-> d]
    ELSE IF identifier \in Keys(d) THEN [exc |-> "", nodes |-> DictDel(d, identifier)]
    ELSE [exc |-> "KeyError", nodes |-> d]

\* the loop is over: await self._websocket.close(), then the lines after it up to the
\* first that raises; self.available = False sets an attribute nothing reads
DisconnectClose(d) ==
    /\ d \in 1..Len(disc)
    /\ disc[d].pc = "destroy"
    /\ disc[d].todo = <<>>
    /\ LET n == disc[d].node
           del == del_pool_nodes(nodes, node[n].identifier)
       IN  /\ sock' = CloseSocket(sock, loop, node[n].websocket, "CLOSING")
           /\ nodes' = del.nodes
           /\ loop' = IF del.exc = "" /\ loop[node[n].task].pc # "dead"
                      THEN [loop EXCEPT ![node[n].task].pc = "cancelled", ![node[n].task].ws = None]
                      ELSE loop
           /\ disc' = [disc EXCEPT ![d] = [node |-> n, owned |-> <<>>, todo |-> <<>>,
                                           destroyed |-> <<>>, pc |-> "done", exc |-> del.exc]]
    /\ ret' = NoRet
    /\ UNCHANGED <<filter, gt, budget, node, call, reconnects, handlers, frames, calls>>

\* a get_tracks that returns only the first track of a search
load_outcome_first_only(data) ==
    LET tracks == [i \in 1..Len(data.tracks) |->
                      Track(data.tracks[i], data.tracks[i], "youtube", FALSE)]
    IN  IF data.loadType = "" THEN Failure("TrackLoadError", <<"NO_LOADTYPE">>)
        ELSE IF data.loadType = "NO_MATCHES" THEN Failure("TrackLoadError", <<"NO_MATCHES">>)
        ELSE IF data.loadType = "LOAD_FAILED"
        THEN Failure("TrackLoadError", <<BackendException.message, BackendException.severity>>)
        ELSE IF data.loadType = "PLAYLIST_LOADED" THEN APlaylist(tracks)
        ELSE IF data.loadType \in {"SEARCH_RESULT", "TRACK_LOADED"}
        THEN TrackList(IF tracks = <<>> THEN <<>> ELSE <<tracks[1]>>)
        ELSE ReturnsNone

\* lines 395-425: the loadType of the backend's answer
load_outcome(data) ==
    LET tracks == [i \in 1..Len(data.tracks) |->
                      Track(data.tracks[i], data.tracks[i], "youtube", FALSE)]
    IN  IF data.loadType = "" THEN Failure("TrackLoadError", <<"NO_LOADTYPE">>)
        ELSE IF data.loadType = "NO_MATCHES" THEN Failure("TrackLoadError", <<"NO_MATCHES">>)
        ELSE IF data.loadType = "LOAD_FAILED"
        THEN Failure("TrackLoadError", <<BackendException.message, BackendException.severity>>)
        ELSE IF data.loadType = "PLAYLIST_LOADED" THEN APlaylist(tracks)
        ELSE IF data.loadType \in {"SEARCH_RESULT", "TRACK_LOADED"} THEN TrackList(tracks)
        ELSE ReturnsNone

GetTracksCall(query, local) ==
    /\ gt.pc \in {"idle", "done"}
    /\ gt' = get_tracks_start(gt, query, local)
    /\ UNCHANGED <<pool, filter>>

CatalogResponse(res) ==
    /\ gt.pc = "catalog"
    /\ gt' = [gt EXCEPT !.pc = "done", !.data = res, !.outcome = catalog_outcome(res)]
    /\ UNCHANGED <<pool, filter>>

AttachmentResponse(data) ==
    /\ gt.pc = "attachment"
    /\ gt' = [gt EXCEPT !.pc = "done", !.data = [kind |-> data.loadType, tracks |-> data.tracks],
                        !.outcome = attachment_outcome(gt.file, data)]
    /\ UNCHANGED <<pool, filter>>

LoadResponse(data) ==
    /\ gt.pc = "generic"
    /\ gt' = [gt EXCEPT !.pc = "done", !.data = [kind |-> data.loadType, tracks |-> data.tracks],
                        !.outcome = load_outcome(data)]
    /\ UNCHANGED <<pool, filter>>

\* ------------------------------------------------------------------ filter constructors
NewTimescale(speed, pitch, rate) ==
    /\ filter = NoFilter
    /\ filter' = Timescale(speed, pitch, rate)
    /\ UNCHANGED <<pool, gt>>

NewTremolo(frequency, depth) ==
    /\ filter = NoFilter
    /\ filter' = Tremolo(frequency, depth)
    /\ UNCHANGED <<pool, gt>>

NewVibrato(frequency, depth) ==
    /\ filter = NoFilter
    /\ filter' = Vibrato(frequency, depth)
    /\ UNCHANGED <<pool, gt>>

NewChannelMix(left_to_left, right_to_right, left_to_right, right_to_left) ==
    /\ filter = NoFilter
    /\ filter' = ChannelMix(left_to_left, right_to_right, left_to_right, right_to_left)
    /\ UNCHANGED <<pool, gt>>

\* ------------------------------------------------------------------ specification
Next ==
    \/ \E identifier \in Ids : CreateNodeCall(identifier)
    \/ \E n \in NodeObjs : CreateNodeConnected(n)
    \/ \E n \in NodeObjs, err \in ConnectErrors : CreateNodeFailed(n, err)
    \/ \E identifier \in Ids \cup {NoId} : GetNodeCall(identifier)
    \/ \E n \in NodeObjs : SendCall(n)
    \/ \E n \in NodeObjs, g \in Guilds : AddPlayer(n, g)
    \/ \E n \in NodeObjs, g \in Guilds : DestroyPlayer(n, g)
    \/ \E s \in Socks, op \in FrameOps, g \in Guilds : BackendSend(s, op, g)
    \/ \E s \in Socks, kind \in {"CLOSED", "CLOSE"} : SocketDrop(s, kind)
    \/ \E l \in Socks : ListenStart(l)
    \/ \E l \in Socks : ListenFrame(l)
    \/ \E l \in Socks : ListenClosed(l)
    \/ \E l \in Socks : ListenWake(l)
    \/ \E n \in NodeObjs : Reconnected(n)
    \/ \E n \in NodeObjs : ReconnectFailed(n)
    \/ \E h \in handlers : HandlePayload(h)
    \/ \E n \in NodeObjs : DisconnectCall(n)
    \/ \E d \in 1..MaxDisconnects : DisconnectDestroy(d)
    \/ \E d \in 1..MaxDisconnects : DisconnectClose(d)

Spec == Init /\ [][Next]_vars

\* The event loop runs every task that is ready, and a sleep and a connection attempt
\* end: the steps of the receive loops, of the handlers and of the connect() tasks
\* are taken when they stay possible. Callers and backends are under no obligation.
Fairness ==
    /\ \A l \in Socks :
          /\ WF_vars(ListenStart(l)) /\ WF_vars(ListenFrame(l))
          /\ WF_vars(ListenClosed(l)) /\ WF_vars(ListenWake(l))
    /\ \A n \in NodeObjs : WF_vars(Reconnected(n) \/ ReconnectFailed(n))
    /\ WF_vars(\E h \in handlers : HandlePayload(h))

LiveInit == Quiet(LiveScenario) /\ gt = NoTracksCall(FALSE, FALSE) /\ filter = NoFilter

LiveSpec == LiveInit /\ [][Next]_vars /\ Fairness

\* get_tracks on one node, called again and again, under every setting of the node's
\* Spotify credentials
TrackInit ==
    /\ Quiet(Budget(1, 0, 0, 0, 0, 0))
    /\ gt \in {NoTracksCall(id, secret) : id \in BOOLEAN, secret \in BOOLEAN}
    /\ filter = NoFilter

TrackNext ==
    \/ \E query \in Queries, local \in BOOLEAN : GetTracksCall(query, local)
    \/ \E res \in CatalogResults : CatalogResponse(res)
    \/ \E data \in Responses : AttachmentResponse(data)
    \/ \E data \in Responses : LoadResponse(data)

TrackSpec == TrackInit /\ [][TrackNext]_vars

\* one call of a filter constructor, with every combination of arguments
FilterInit ==
    /\ Quiet(Budget(0, 0, 0, 0, 0, 0))
    /\ gt = NoTracksCall(FALSE, FALSE)
    /\ filter = NoFilter

FilterNext ==
    \/ \E speed \in Levels, pitch \in Levels, rate \in Levels : NewTimescale(speed, pitch, rate)
    \/ \E frequency \in Frequencies, depth \in Levels : NewTremolo(frequency, depth)
    \/ \E frequency \in Frequencies, depth \in Levels : NewVibrato(frequency, depth)
    \/ \E a \in Levels, b \in Levels, c \in Levels, d \in Levels : NewChannelMix(a, b, c, d)

FilterSpec == FilterInit /\ [][FilterNext]_vars

\* ------------------------------------------------------------------ properties
Registered == {nodes[i].node : i \in 1..Len(nodes)}
AvailableRegistered == {n \in Registered : Truthy(node[n].available)}
Done == {d \in 1..Len(disc) : disc[d].pc = "done"}
LoopsOf(n) == {l \in Socks : loop[l].pc # "none" /\ loop[l].node = n}

\* C1: get_node() with no identifier returns a registered node whose available flag
\* is true and whose player count is minimal among the available registered nodes,
\* and it raises NoNodesAvailable exactly when no registered node is available
C1_LeastLoaded ==
    (ret.op = "get_node" /\ ret.arg = NoId) =>
        /\ (ret.result.kind = "raise") <=> (AvailableRegistered = {})
        /\ ret.result.kind = "raise" => ret.result.exc = "NoNodesAvailable"
        /\ ret.result.kind = "return" =>
              /\ ret.result.node \in AvailableRegistered
              /\ \A m \in AvailableRegistered :
                    player_count(ret.result.node) <= player_count(m)

C1_Witness ==
    /\ ret.op = "get_node" /\ ret.arg = NoId /\ ret.result.kind = "return"
    /\ \E m \in AvailableRegistered : player_count(m) > player_count(ret.result.node)
    /\ nodes[1].node # ret.result.node

\* C2: create_node with an identifier that is a key of the registry raises
\* NodeCreationError, constructs no Node, opens no connection and leaves the
\* registry as it was
C2_DuplicateRejected ==
    [][/\ \A n \in NodeObjs :
            (call[n] = "none" /\ call'[n] # "none") => node'[n].identifier \notin Keys(nodes)
       /\ (ret'.op = "create_node" /\ ret'.node = None) =>
            /\ ret'.arg \in Keys(nodes)
            /\ ret'.result = Raise("NodeCreationError")
            /\ UNCHANGED <<nodes, node, call, sock, loop, reconnects>>]_vars

C2_Witness ==
    /\ ret.op = "create_node" /\ ret.result = Raise("NodeCreationError")
    /\ ret.arg \in Keys(nodes)

\* C3: a node is in the registry only after its connect() has succeeded: while
\* connect() is pending and after it failed the node is not registered, the failure
\* is raised to the caller of create_node, and every registered node has a websocket
\* and a receive loop
C3_RegisteredAfterConnect ==
    /\ \A n \in NodeObjs :
          /\ n \in Registered =>
                call[n] = "returned" /\ node[n].websocket # None /\ LoopsOf(n) # {}
          /\ call[n] \in {"connect", "failed"} => n \notin Registered
    /\ (ret.op = "create_node" /\ ret.result.kind = "raise" /\ ret.node # None) =>
          call[ret.node] = "failed" /\ ret.node \notin Registered

C3_Witness ==
    /\ ret.op = "create_node" /\ ret.result = Raise("NodeConnectionFailure")
    /\ Registered # {} /\ ret.node \notin Registered

\* C4: after disconnect() the node's identifier is no key of the registry:
\* get_node(identifier) does not return the node and get_node() never returns it
C4_DisconnectUnregisters ==
    \A d \in Done :
        /\ node[disc[d].node].identifier \notin Keys(nodes)
        /\ get_node(node[disc[d].node].identifier).node # disc[d].node
        /\ get_node(NoId).node # disc[d].node

\* C5: after disconnect() no connect() is scheduled for the node and its socket
\* stays closed
C5_NoReconnectAfterDisconnect ==
    \A d \in Done : reconnects[disc[d].node] = 0 /\ ~is_connected(disc[d].node)

\* C6: a second disconnect() on a node completes without raising and leaves the node
\* disconnected and out of the registry
C6_DisconnectTwice ==
    \A d1, d2 \in Done :
        (d1 < d2 /\ disc[d1].node = disc[d2].node) =>
            /\ disc[d2].exc = ""
            /\ ~is_connected(disc[d2].node)
            /\ node[disc[d2].node].identifier \notin Keys(nodes)

\* C7: send() on a node that is not connected raises NodeNotAvailable and writes nothing
C7_SendNeedsConnection ==
    (ret.op = "send" /\ ~is_connected(ret.node)) => ret.result = Raise("NodeNotAvailable")

\* C8: disconnect() calls destroy() once on every player the node owned when it was
\* called, in order, and closes the socket only after the last of them
IsPrefix(s, t) == Len(s) <= Len(t) /\ SubSeq(t, 1, Len(s)) = s

C8_DestroyEachOnceBeforeClose ==
    [][\A d \in 1..Len(disc) :
          disc[d].pc = "destroy" =>
             /\ IsPrefix(disc[d].destroyed, disc[d].owned)
             /\ disc[d].destroyed \o disc[d].todo = disc[d].owned
             /\ disc'[d].pc = "done" => disc[d].destroyed = disc[d].owned
             /\ disc'[d].pc = "destroy" =>
                   /\ disc'[d].owned = disc[d].owned
                   /\ disc'[d].destroyed # disc[d].destroyed =>
                         /\ sock' = sock
                         /\ Len(disc'[d].destroyed) = Len(disc[d].destroyed) + 1]_vars

C8_Witness ==
    \E d \in 1..Len(disc) :
        /\ disc[d].pc = "destroy" /\ disc[d].todo = <<>>
        /\ Len(disc[d].owned) = 2 /\ disc[d].destroyed = disc[d].owned
        /\ is_connected(disc[d].node)

\* C9: handling an event or playerUpdate frame for a guild with no player on the node
\* changes nothing; for a guild with a player it invokes that player's entry point
\* (_dispatch_event for event, _update_state for playerUpdate) once with the frame,
\* and nothing else
C9_FrameRouting ==
    [][\A h \in handlers \ handlers' :
          h.frame.op \in {"event", "playerUpdate"} =>
             /\ UNCHANGED <<nodes, node, call, sock, loop, reconnects, disc>>
             /\ IF h.frame.guildId \notin Range(node[h.node].players)
                THEN calls' = calls
                ELSE calls' = Append(calls,
                        Invoke(h.node, h.frame.guildId,
                               IF h.frame.op = "event" THEN "_dispatch_event" ELSE "_update_state",
                               h.frame))]_vars

C9_Witness ==
    /\ frames = 2 /\ handlers = {} /\ Len(calls) = 1
    /\ calls[1].entry = "_dispatch_event" /\ calls[1].payload.id = 2
    /\ Len(node[calls[1].node].players) = 2

\* C10: every successful connect() leaves the node available, has started a receive
\* loop and has written configureResuming (key myResumeKey, timeout 60) once, as the
\* first message, on the socket it opened
C10_ConnectConfiguresResuming ==
    \A s \in Socks :
        sock[s].opened =>
            /\ loop[s].pc # "none"
            /\ Truthy(node[loop[s].node].available)
            /\ sock[s].sent # <<>> /\ sock[s].sent[1] = ConfigureResuming
            /\ \A i \in 2..Len(sock[s].sent) : sock[s].sent[i].op # "configureResuming"

C10_Witness ==
    \E s, t \in Socks :
        /\ s < t /\ sock[s].opened /\ sock[t].opened
        /\ loop[s].node = loop[t].node
        /\ node[loop[t].node].websocket = t
        /\ Len(sock[t].sent) = 2

C12_NeverSilentlyEmpty ==
    (gt.pc = "done" /\ gt.resolver \in {"attachment", "generic"}) =>
        \/ gt.outcome.kind = "list" /\ gt.outcome.tracks # <<>>
        \/ gt.outcome.kind = "Playlist"
        \/ /\ gt.outcome.kind = "raise"
           /\ gt.outcome.exc \in {"TrackLoadError", "InvalidSpotifyClientAuthorization"}

\* C13: for a generic query the loadType decides the outcome: missing raises
\* TrackLoadError NO_LOADTYPE, NO_MATCHES raises TrackLoadError NO_MATCHES,
\* LOAD_FAILED raises TrackLoadError with the backend's message and severity,
\* PLAYLIST_LOADED returns a Playlist with as many tracks as the backend sent,
\* SEARCH_RESULT and TRACK_LOADED return one Track per entry, in the backend's order
C13_LoadTypeMapping ==
    (gt.pc = "done" /\ gt.resolver = "generic") =>
        LET d == gt.data
            o == gt.outcome
        IN  /\ d.kind = "" => o = Failure("TrackLoadError", <<"NO_LOADTYPE">>)
            /\ d.kind = "NO_MATCHES" => o = Failure("TrackLoadError", <<"NO_MATCHES">>)
            /\ d.kind = "LOAD_FAILED" =>
                  /\ o.kind = "raise" /\ o.exc = "TrackLoadError"
                  /\ o.tag = <<BackendException.message, BackendException.severity>>
            /\ d.kind = "PLAYLIST_LOADED" =>
                  o.kind = "Playlist" /\ Len(o.tracks) = Len(d.tracks)
            /\ d.kind \in {"SEARCH_RESULT", "TRACK_LOADED"} =>
                  /\ o.kind = "list" /\ Len(o.tracks) = Len(d.tracks)
                  /\ \A i \in 1..Len(d.tracks) : o.tracks[i].track_id = d.tracks[i]

C13_Witness ==
    /\ gt.pc = "done" /\ gt.resolver = "generic"
    /\ gt.data.kind = "SEARCH_RESULT" /\ gt.data.tracks = <<"t2", "t1">>
    /\ gt.outcome.kind = "list" /\ gt.outcome.tracks[1].track_id = "t2"

\* C14: get_tracks with a Spotify URL on a node that lacks the client id, the client
\* secret or both raises InvalidSpotifyClientAuthorization and sends no request, to
\* the catalog or to the backend
C14_SpotifyNeedsCredentials ==
    (/\ gt.pc = "done" /\ SPOTIFY_URL_REGEX_match(gt.query)
     /\ ~(gt.spotify_client_id /\ gt.spotify_client_secret)) =>
        /\ gt.outcome = Failure("InvalidSpotifyClientAuthorization", <<>>)
        /\ gt.requests = <<>>

\* C15: get_tracks with an attachment URL raises TrackLoadError, and nothing else,
\* when the backend's answer has no tracks
C15_AttachmentWithoutTracks ==
    (gt.pc = "done" /\ DISCORD_MP3_URL_REGEX_match(gt.query) /\ gt.data.tracks = <<>>) =>
        gt.outcome.kind = "raise" /\ gt.outcome.exc = "TrackLoadError"

\* C16 as stated: get_node(identifier=X) returns the node registered under X and
\* None when there is none, in every state of the pool, and never raises
C16_LookupNeverRaises ==
    (ret.op = "get_node" /\ ret.arg # NoId) => ret.result = Return(DictGet(nodes, ret.arg))

\* C16: get_node(identifier=X) raises NoNodesAvailable when no registered node is
\* available, which includes the empty pool; otherwise it returns the available node
\* registered under X, and None when there is none
C16_LookupByIdentifier ==
    (ret.op = "get_node" /\ ret.arg # NoId) =>
        IF AvailableRegistered = {} THEN ret.result = Raise("NoNodesAvailable")
        ELSE /\ ret.result.kind = "return"
             /\ \A n \in AvailableRegistered :
                   node[n].identifier = ret.arg => ret.result.node = n
             /\ (\A n \in AvailableRegistered : node[n].identifier # ret.arg) =>
                   ret.result.node = None

C16_Witness ==
    /\ ret.op = "get_node" /\ ret.arg = "b"
    /\ nodes = <<>> /\ ret.result = Raise("NoNodesAvailable")
    /\ \E n \in NodeObjs : call[n] = "failed"

\* C17: a Timescale, Tremolo or Vibrato is constructed exactly when its arguments are
\* valid (Timescale: speed, pitch and rate at least 0; Tremolo: frequency at least 0
\* and depth from 0 to 1; Vibrato: frequency from 0 to 14 and depth from 0 to 1);
\* otherwise the constructor raises FilterInvalidArgument and there is no payload
C17_FilterArguments ==
    LET a == filter.args
        valid == CASE filter.cls = "Timescale" -> a[1] >= 0 /\ a[2] >= 0 /\ a[3] >= 0
                   [] filter.cls = "Tremolo" -> a[1] >= 0 /\ a[2] >= 0 /\ a[2] <= Num(1, 0)
                   [] filter.cls = "Vibrato" ->
                        a[1] >= 0 /\ a[1] <= Num(14, 0) /\ a[2] >= 0 /\ a[2] <= Num(1, 0)
    IN  filter.cls \in {"Timescale", "Tremolo", "Vibrato"} =>
            /\ valid <=> filter.exc = ""
            /\ valid => Len(filter.payload) = Len(a)
                        /\ \A i \in 1..Len(a) : filter.payload[i][2] = a[i]
            /\ ~valid => filter.exc = "FilterInvalidArgument" /\ filter.payload = <<>>

C17_Witness ==
    /\ filter.cls = "Vibrato" /\ filter.args = <<Num(15, 0), Num(0, 1)>>
    /\ filter.exc = "FilterInvalidArgument"

\* C18: a ChannelMix with a ratio below 0 or above 1 is not constructed: the
\* constructor raises, and no ChannelMix carries such a ratio in its payload
C18_ChannelMixRatios ==
    filter.cls = "ChannelMix" =>
        /\ (\E i \in 1..4 : filter.args[i] < 0 \/ filter.args[i] > Num(1, 0)) =>
              filter.exc # "" /\ filter.payload = <<>>
        /\ \A i \in 1..Len(filter.payload) :
              filter.payload[i][2] >= 0 /\ filter.payload[i][2] <= Num(1, 0)

\* C19: when the socket of a connected node closes and disconnect() was not called,
\* the receive loop comes to schedule a connect(), and does so again after every
\* attempt that failed; and when connection attempts stop failing, the node comes to
\* be connected again
DisconnectCalled(n) == \E d \in 1..Len(disc) : disc[d].node = n
Dropped(n) == call[n] = "returned" /\ ~is_connected(n) /\ ~DisconnectCalled(n)

C19_ReconnectLiveness ==
    /\ \A n \in NodeObjs :
          Dropped(n) ~> (reconnects[n] > 0 \/ is_connected(n) \/ DisconnectCalled(n))
    /\ (<>[][\A n \in NodeObjs : ~ReconnectFailed(n)]_vars) =>
          \A n \in NodeObjs : Dropped(n) ~> (is_connected(n) \/ DisconnectCalled(n))

\* C20: the receive loop takes the frames of a socket in the order of their arrival
\* and makes of each one handler task, at once: it is back in receive() in the same
\* step, whatever handlers are pending, and a handler that ends, with or without an
\* exception, leaves the loops and the sockets as they are
Reads(s) ==
    /\ sock[s].inbox # <<>> /\ ~sock'[s].closed
    /\ sock'[s].inbox = Tail(sock[s].inbox)

C20_DispatchInArrivalOrder ==
    [][/\ \A s \in Socks :
            /\ \A i, j \in 1..Len(sock[s].inbox) : i < j => sock[s].inbox[i].id < sock[s].inbox[j].id
            /\ Reads(s) =>
                  /\ \E l \in Waiting(loop, s) :
                        /\ handlers' = handlers \cup {[node |-> loop[l].node, frame |-> Head(sock[s].inbox)]}
                        /\ loop'[l].pc \in {"waiting", "sleep", "dead"}
                  /\ Cardinality(handlers') = Cardinality(handlers) + 1
                  /\ UNCHANGED <<node, calls>>
       /\ handlers' # handlers =>
             \/ \E s \in Socks : Reads(s)
             \/ /\ Cardinality(handlers') = Cardinality(handlers) - 1
                /\ handlers' \subseteq handlers
                /\ UNCHANGED <<loop, sock>>]_vars

C20_Witness ==
    /\ ret.op = "_handle_payload" /\ ret.result = Raise("KeyError")
    /\ \E h \in handlers : h.frame.id = 1
    /\ frames = 2
    /\ \E l \in Socks : loop[l].pc = "waiting"

\* C21: handling a stats frame sets the node's stats to the snapshot of that frame
\* and changes nothing else: players, available flag, registry, the stats of the
\* other nodes, and no player entry point is invoked; stats change in no other step,
\* so a node's stats are those of the stats frame handled last
C21_StatsReplaced ==
    [][/\ \A h \in handlers \ handlers' :
             h.frame.op = "stats" =>
                /\ node' = [node EXCEPT ![h.node].stats = h.frame.id]
                /\ UNCHANGED <<nodes, call, sock, loop, reconnects, calls, disc>>
       /\ \A n \in NodeObjs :
             node'[n].stats # node[n].stats =>
                \E h \in handlers \ handlers' :
                   h.frame.op = "stats" /\ h.node = n /\ node'[n].stats = h.frame.id]_vars

C21_Witness ==
    \E n \in NodeObjs :
        /\ node[n].stats = 1 /\ frames = 2 /\ handlers = {}
        /\ node[n].players # <<>>
        /\ \A s \in Socks : sock[s].inbox = <<>>

\* C22: get_node() with no identifier is a function of the pool's state (registry in
\* registration order, available flags, player counts), and among the available
\* nodes with the least players it returns the one registered first
C22_EarliestAmongTies ==
    (ret.op = "get_node" /\ ret.arg = NoId) =>
        /\ ret.result = get_node(NoId)
        /\ ret.result.kind = "return" =>
              \E i \in 1..Len(nodes) :
                 /\ nodes[i].node = ret.result.node
                 /\ \A j \in 1..Len(nodes) :
                       (j < i /\ Truthy(node[nodes[j].node].available)) =>
                          player_count(nodes[j].node) > player_count(nodes[i].node)

C22_Witness ==
    /\ ret.op = "get_node" /\ ret.arg = NoId
    /\ Len(nodes) = 2 /\ ret.result = Return(nodes[1].node)
    /\ player_count(nodes[1].node) = 1 /\ player_count(nodes[2].node) = 1
    /\ Truthy(node[nodes[2].node].available)

\* C23: every query goes to exactly one resolver, tried in the order catalog URL,
\* attachment URL, generic. A query that holds no URL and is not local is prefixed
\* with the search type and goes to the generic resolver; a catalog URL sends nothing
\* to the backend; an attachment URL sends one load request for the URL as given;
\* every other query sends one load request for the query, prefixed or not
unquote_piece(p) ==
    CASE p = "https%3A//" -> "https://"
      [] p = "http%3A//" -> "http://"
      [] p = "%3A" -> ":"
      [] p = "%3Fsi%3D1" -> "?si=1"
      [] OTHER -> p
unquote(q) == [i \in 1..Len(q) |-> unquote_piece(q[i])]

C23_OneResolver ==
    gt.pc # "idle" =>
        LET plain == ~URL_REGEX_search(gt.given) /\ ~gt.local
            catalog == SPOTIFY_URL_REGEX_match(gt.query)
            attachment == ~catalog /\ DISCORD_MP3_URL_REGEX_match(gt.query)
        IN  /\ gt.resolver \in {"catalog", "attachment", "generic"}
            /\ gt.query = IF plain THEN <<"ytsearch", ":">> \o gt.given ELSE gt.given
            /\ plain => gt.resolver = "generic"
            /\ gt.resolver = "catalog" <=> catalog
            /\ gt.resolver = "attachment" <=> attachment
            /\ gt.resolver = "catalog" => \A i \in 1..Len(gt.requests) : gt.requests[i].to # "backend"
            /\ gt.resolver = "attachment" => gt.query = gt.given
            /\ gt.resolver \in {"attachment", "generic"} =>
                  /\ Len(gt.requests) = 1 /\ gt.requests[1].to = "backend"
                  /\ unquote(gt.requests[1].identifier) = gt.query

C23_Witness ==
    /\ gt.pc = "done" /\ gt.given = <<"never", "gonna">> /\ ~gt.local
    /\ gt.resolver = "generic"
    /\ gt.requests[1].identifier = <<"ytsearch", "%3A", "never", "gonna">>

\* C24: a node has at most one receive loop alive at any time: a reconnect does not
\* leave the old loop running beside the loop of the new connect(), and the task
\* disconnect() cancels is the node's only loop
Alive(l) == loop[l].pc \in {"start", "waiting", "read", "sleep"}

C24_OneLoopPerNode ==
    \A n \in NodeObjs :
        /\ Cardinality({l \in LoopsOf(n) : Alive(l)}) <= 1
        /\ \A l \in LoopsOf(n) : Alive(l) => node[n].task = l

\* C25: of the create_node calls made at the same time with one identifier at most
\* one registers a node: no node whose connect() succeeded, that was returned to its
\* caller and is still connected, is missing from the registry or overwritten in it
C25_ConcurrentCreate ==
    /\ \A n, m \in NodeObjs :
          (call[n] = "returned" /\ call[m] = "returned" /\ node[n].identifier = node[m].identifier)
             => n = m
    /\ \A n \in NodeObjs :
          (call[n] = "returned" /\ is_connected(n) /\ ~DisconnectCalled(n)) => n \in Registered

\* C26: a node whose available flag is true has an open socket, and get_node never
\* returns a node whose socket is closed
C26_AvailableIsConnected ==
    /\ \A n \in NodeObjs : Truthy(node[n].available) => is_connected(n)
    /\ (ret.op = "get_node" /\ ret.result.kind = "return" /\ ret.result.node # None) =>
          is_connected(ret.result.node)

====
